---- MODULE Spec2Model ----
(***************************************************************************)
(* Model of peopletransformdata: src/main.py reads JSON objects from a     *)
(* partition prefix of an object store, flattens them, builds a table and  *)
(* uploads the table as a Parquet object.                                  *)
(*                                                                         *)
(* Text is modelled as a sequence of characters (one-character strings),   *)
(* so that key construction, splitting and replacing are computed.         *)
(* A parsed JSON value is a record tagged by t:                            *)
(*   [t |-> "null"|"bool"|"num"|"str", s |-> characters]   scalars         *)
(*   [t |-> "arr", el |-> sequence of values]                              *)
(*   [t |-> "obj", kv |-> sequence of <<key, value>>, keys distinct]       *)
(* A Python dict is a sequence of <<key, value>> pairs in insertion order. *)
(***************************************************************************)
EXTENDS Integers, Sequences, FiniteSets, TLC

VARIABLES
    raw,                        \* the source bucket: object name -> JSON text
    processed,                  \* the destination bucket: object name -> buffer
    processed_exists,           \* whether the destination bucket exists
    pc,                         \* position of main: "list", "read", "convert", "done", "raised"
    objects_to_be_transformed,  \* the list returned by the listing
    idx,                        \* number of objects the loop has finished
    json_str,                   \* what read_json_from_minio returned for the current object
    out,                        \* the lines printed so far
    data,                       \* TransformSpec: the parsed JSON document under test
    fpc,                        \* TransformSpec: "input", "flattened" or "assembled"
    flat,                       \* TransformSpec: result of flatten_json_string
    batch                       \* TransformSpec: result of lines 122-132 of the converter

mvars == <<raw, processed, processed_exists, pc, objects_to_be_transformed, idx, json_str, out>>

fvars == <<data, fpc, flat, batch>>

vars == <<raw, processed, processed_exists, pc, objects_to_be_transformed, idx, json_str, out,
          data, fpc, flat, batch>>

(***************************************************************************)
(* Bounds of the model.                                                    *)
(***************************************************************************)
MaxNodes == 4

MaxObjects == 2

(***************************************************************************)
(* Characters and Python's None.                                           *)
(***************************************************************************)
None == [t |-> "None"]

Digits == <<"0", "1", "2", "3", "4", "5", "6", "7", "8", "9">>

\* str(i) of a non-negative integer: its base-10 rendering
RECURSIVE str(_)
str(i) ==
    IF i < 10 THEN <<Digits[i + 1]>>
    ELSE str(i \div 10) \o <<Digits[(i % 10) + 1]>>

\* the default separator of flatten_json_string
sep == <<"_">>

\* The element of a one-element set.  Only({F(x) : x \in {e}}) is F(e) with e
\* evaluated once, whatever the number of uses of x in F.
Only(S) == CHOOSE x \in S : TRUE

Range(seq) == {seq[n] : n \in DOMAIN seq}

(***************************************************************************)
(* Python dict operations on <<key, value>> sequences.                     *)
(***************************************************************************)
DictKeys(d) == {d[n][1] : n \in DOMAIN d}

DictHas(d, k) == \E n \in DOMAIN d : d[n][1] = k

DictGet(d, k) == d[CHOOSE n \in DOMAIN d : d[n][1] = k][2]

\* d[k] = v: an existing key keeps its position, a new key is appended
DictSet(d, k, v) ==
    IF DictHas(d, k)
    THEN [n \in DOMAIN d |-> IF d[n][1] = k THEN <<k, v>> ELSE d[n]]
    ELSE Append(d, <<k, v>>)

\* d.update(other)
RECURSIVE DictUpdate(_, _)
DictUpdate(d, other) ==
    IF other = <<>> THEN d
    ELSE Only({DictUpdate(d2, Tail(other)) :
                 d2 \in {DictSet(d, Head(other)[1], Head(other)[2])}})

(***************************************************************************)
(* flatten_json_string._flatten                                            *)
(***************************************************************************)
\* new_key for a dict key or a rendered list index: the separator is
\* inserted only when parent_key is truthy (a non-empty string)
new_key(parent_key, k) ==
    IF parent_key # <<>> THEN parent_key \o sep \o k ELSE k

RECURSIVE flatten(_, _)
RECURSIVE flatten_dict(_, _, _)
RECURSIVE flatten_list(_, _, _, _)

\* for k, v in obj.items(): items.update(_flatten(v, new_key))
flatten_dict(kv, parent_key, items) ==
    IF kv = <<>> THEN items
    ELSE Only({flatten_dict(Tail(kv), parent_key, items2) :
                 items2 \in
                    {DictUpdate(items, flat_v) :
                       flat_v \in {flatten(Head(kv)[2], new_key(parent_key, Head(kv)[1]))}}})

\* for i, v in enumerate(obj): items.update(_flatten(v, new_key))
flatten_list(el, i, parent_key, items) ==
    IF i >= Len(el) THEN items
    ELSE Only({flatten_list(el, i + 1, parent_key, items2) :
                 items2 \in
                    {DictUpdate(items, flat_v) :
                       flat_v \in {flatten(el[i + 1], new_key(parent_key, str(i)))}}})

\* _flatten without the branch for lists: a list is stored as a value
flatten_no_list_branch(obj, parent_key) ==
    IF obj.t = "obj" THEN flatten_dict(obj.kv, parent_key, <<>>)
    ELSE << <<parent_key, obj>> >>

flatten(obj, parent_key) ==
    IF obj.t = "obj" THEN flatten_dict(obj.kv, parent_key, <<>>)
    ELSE IF obj.t = "arr" THEN flatten_list(obj.el, 0, parent_key, <<>>)
    ELSE << <<parent_key, obj>> >>

(***************************************************************************)
(* JSON text.  A text is a sequence of tokens: the punctuation tokens and  *)
(* one literal token per scalar (string, number, true/false/null).         *)
(***************************************************************************)
Punct(c) == [k |-> c]

Lit(v) == [k |-> "lit", v |-> v]

Error(e) == [t |-> "Error", e |-> e]

IsError(r) == r.t = "Error"

IsScalar(v) == v.t \in {"null", "bool", "num", "str"}

Str(chars) == [t |-> "str", s |-> chars]

Num(chars) == [t |-> "num", s |-> chars]

Null == [t |-> "null", s |-> <<"n", "u", "l", "l">>]

Arr(el) == [t |-> "arr", el |-> el]

Obj(kv) == [t |-> "obj", kv |-> kv]

\* a str object holding JSON text
Text(toks) == [t |-> "text", toks |-> toks]

\* the tokens json.dumps writes for a value
RECURSIVE tokens_of(_)
RECURSIVE tokens_of_items(_, _)
RECURSIVE tokens_of_members(_, _)

tokens_of_items(el, first) ==
    IF el = <<>> THEN <<>>
    ELSE (IF first THEN <<>> ELSE <<Punct(",")>>)
         \o tokens_of(Head(el)) \o tokens_of_items(Tail(el), FALSE)

tokens_of_members(kv, first) ==
    IF kv = <<>> THEN <<>>
    ELSE (IF first THEN <<>> ELSE <<Punct(",")>>)
         \o <<Lit(Str(Head(kv)[1])), Punct(":")>> \o tokens_of(Head(kv)[2])
         \o tokens_of_members(Tail(kv), FALSE)

tokens_of(v) ==
    IF v.t = "arr" THEN <<Punct("[")>> \o tokens_of_items(v.el, TRUE) \o <<Punct("]")>>
    ELSE IF v.t = "obj" THEN <<Punct("{")>> \o tokens_of_members(v.kv, TRUE) \o <<Punct("}")>>
    ELSE <<Lit(v)>>

\* json.dumps(value)
dumps(v) == Text(tokens_of(v))

\* The recursive-descent parser of json.loads.  A parse result is
\* [ok |-> TRUE, v |-> value, rest |-> remaining tokens] or [ok |-> FALSE].
ParseFail == [ok |-> FALSE]

Parsed(v, rest) == [ok |-> TRUE, v |-> v, rest |-> rest]

IsPunct(toks, c) == toks # <<>> /\ Head(toks) = Punct(c)

RECURSIVE parse_value(_)
RECURSIVE parse_items(_, _)
RECURSIVE parse_members(_, _)

RECURSIVE after_item(_, _)
RECURSIVE after_member(_, _)

\* after "[" and the elements in acc: the next element r, then "," or "]"
parse_items(toks, acc) == Only({after_item(r, acc) : r \in {parse_value(toks)}})

after_item(r, acc) ==
    IF ~r.ok THEN ParseFail
    ELSE IF IsPunct(r.rest, "]") THEN Parsed(Arr(Append(acc, r.v)), Tail(r.rest))
    ELSE IF IsPunct(r.rest, ",") THEN parse_items(Tail(r.rest), Append(acc, r.v))
    ELSE ParseFail

\* after "{" and the members in acc: a string key, ":", a value r, then ","
\* or "}"; a repeated key keeps its first position and takes the last value
parse_members(toks, acc) ==
    IF Len(toks) < 2 \/ toks[1].k # "lit" \/ toks[2] # Punct(":") THEN ParseFail
    ELSE IF toks[1].v.t # "str" THEN ParseFail
    ELSE Only({after_member(r, <<acc, toks[1].v.s>>) :
                 r \in {parse_value(Tail(Tail(toks)))}})

after_member(r, acc_key) ==
    IF ~r.ok THEN ParseFail
    ELSE IF IsPunct(r.rest, "}")
        THEN Parsed(Obj(DictSet(acc_key[1], acc_key[2], r.v)), Tail(r.rest))
    ELSE IF IsPunct(r.rest, ",")
        THEN parse_members(Tail(r.rest), DictSet(acc_key[1], acc_key[2], r.v))
    ELSE ParseFail

parse_value(toks) ==
    IF toks = <<>> THEN ParseFail
    ELSE IF Head(toks).k = "lit" THEN Parsed(Head(toks).v, Tail(toks))
    ELSE IF Head(toks) = Punct("[") THEN
        IF IsPunct(Tail(toks), "]") THEN Parsed(Arr(<<>>), Tail(Tail(toks)))
        ELSE parse_items(Tail(toks), <<>>)
    ELSE IF Head(toks) = Punct("{") THEN
        IF IsPunct(Tail(toks), "}") THEN Parsed(Obj(<<>>), Tail(Tail(toks)))
        ELSE parse_members(Tail(toks), <<>>)
    ELSE ParseFail

\* json.loads(text): TypeError for None, JSONDecodeError for text that
\* is not exactly one JSON value
whole_text(r) == IF r.ok /\ r.rest = <<>> THEN r.v ELSE Error("JSONDecodeError")

loads(text) ==
    IF text.t = "None" THEN Error("TypeError")
    ELSE Only({whole_text(r) : r \in {parse_value(text.toks)}})

\* flatten_json_string(text): the flat dict, or None when parsing fails
flatten_or_none(parsed) ==
    IF IsError(parsed) THEN None ELSE [t |-> "dict", d |-> flatten(parsed, <<>>)]

flatten_json_string(text) == Only({flatten_or_none(parsed) : parsed \in {loads(text)}})

(***************************************************************************)
(* json_string_to_parquet_minio, lines 122-132: from the text to the       *)
(* DataFrame.                                                              *)
(***************************************************************************)
results == <<"r", "e", "s", "u", "l", "t", "s">>

\* value[0] as Python evaluates it on a parsed JSON value
index0(value) ==
    IF value.t = "arr" THEN
        IF value.el = <<>> THEN Error("IndexError") ELSE value.el[1]
    ELSE IF value.t = "str" THEN
        IF value.s = <<>> THEN Error("IndexError") ELSE Str(<<value.s[1]>>)
    ELSE IF value.t = "obj" THEN Error("KeyError")
    ELSE Error("TypeError")

\* record_set that takes the dict itself when data["results"][0] cannot be taken
record_set_or_whole(parsed) ==
    IF parsed.t = "obj" THEN
        IF ~DictHas(parsed.kv, results) THEN [t |-> "list", l |-> <<parsed>>]
        ELSE IF IsError(index0(DictGet(parsed.kv, results)))
            THEN [t |-> "list", l |-> <<parsed>>]
        ELSE [t |-> "list", l |-> <<index0(DictGet(parsed.kv, results))>>]
    ELSE IF parsed.t = "arr" THEN [t |-> "list", l |-> parsed.el]
    ELSE IF parsed.t = "str" THEN
        [t |-> "list", l |-> [n \in DOMAIN parsed.s |-> Str(<<parsed.s[n]>>)]]
    ELSE Error("TypeError")

\* the records the loop of line 127 iterates over: for a dict,
\* [data["results"][0]]; a list as it is; a string character by character;
\* any other value is not iterable
record_set(parsed) ==
    IF parsed.t = "obj" THEN
        IF ~DictHas(parsed.kv, results) THEN Error("KeyError")
        ELSE LET first == index0(DictGet(parsed.kv, results)) IN
             IF IsError(first) THEN first ELSE [t |-> "list", l |-> <<first>>]
    ELSE IF parsed.t = "arr" THEN [t |-> "list", l |-> parsed.el]
    ELSE IF parsed.t = "str" THEN
        [t |-> "list", l |-> [n \in DOMAIN parsed.s |-> Str(<<parsed.s[n]>>)]]
    ELSE Error("TypeError")

\* "if flat:" in place of "if flat is not None:": an empty dict is dropped too
append_flat_if_truthy(flattened_data, flat_record) ==
    IF flat_record.t = "None" THEN flattened_data
    ELSE IF flat_record.d = <<>> THEN flattened_data
    ELSE Append(flattened_data, flat_record.d)

\* lines 130-131: if flat is not None: flattened_data.append(flat)
append_flat(flattened_data, flat_record) ==
    IF flat_record.t = "None" THEN flattened_data ELSE Append(flattened_data, flat_record.d)

\* lines 127-131: flatten each record through its JSON text, keep what is not None
RECURSIVE flatten_records(_, _)
flatten_records(records, flattened_data) ==
    IF records = <<>> THEN flattened_data
    ELSE Only({flatten_records(Tail(records), flattened_data2) :
                 flattened_data2 \in
                    {append_flat(flattened_data, flat_record) :
                       flat_record \in {flatten_json_string(dumps(Head(records)))}}})

\* the value pandas puts where a record has no value for a column
NaN == [t |-> "NaN"]

\* the columns of pd.DataFrame(list of dicts): the keys in first-seen order
RECURSIVE columns_of(_, _)
columns_of(flattened_data, cols) ==
    IF flattened_data = <<>> THEN cols
    ELSE LET d == Head(flattened_data)
             fresh == SelectSeq([n \in DOMAIN d |-> d[n][1]],
                                LAMBDA k : \A m \in DOMAIN cols : cols[m] # k)
         IN Only({columns_of(Tail(flattened_data), cols2) : cols2 \in {cols \o fresh}})

\* pd.DataFrame(flattened_data): one row per dict, NaN for a missing key
table_of(flattened_data, cols) ==
    [t |-> "DataFrame",
     columns |-> cols,
     rows |-> [r \in DOMAIN flattened_data |->
                 [c \in DOMAIN cols |->
                    IF DictHas(flattened_data[r], cols[c])
                    THEN DictGet(flattened_data[r], cols[c]) ELSE NaN]]]

DataFrame(flattened_data) ==
    Only({table_of(flattened_data, cols) : cols \in {columns_of(flattened_data, <<>>)}})

\* lines 122-132: the DataFrame, or the exception raised on the way
frame_of(records) ==
    IF IsError(records) THEN records
    ELSE Only({DataFrame(flattened_data) :
                 flattened_data \in {flatten_records(records.l, <<>>)}})

records_of(parsed) == IF IsError(parsed) THEN parsed ELSE record_set(parsed)

assemble(text) ==
    Only({frame_of(records) :
            records \in {records_of(parsed) : parsed \in {loads(text)}}})

(***************************************************************************)
(* The JSON documents the transformation is applied to: every value of at  *)
(* most MaxNodes nodes over two small alphabets, and some named examples.  *)
(***************************************************************************)
FlattenKeys == {<<>>, <<"a">>, <<"a", "_", "0">>}

FlattenScalars == {Num(<<"1">>), Num(<<"2">>)}

AssembleKeys == {results, <<"x">>}

AssembleScalars == {Num(<<"1">>), Str(<<"s", "t">>), Null}

InjSeqs(K, n) == {q \in [1..n -> K] : \A i, j \in 1..n : i # j => q[i] # q[j]}

\* the objects with the values of the sequence f under distinct keys of K
ObjectsOf(K, f) == {Obj([i \in DOMAIN f |-> <<q[i], f[i]>>]) : q \in InjSeqs(K, Len(f))}

\* the array and the objects whose elements are the values of f, in order
Containers(K, f) == {Arr(f)} \cup ObjectsOf(K, f)

\* the values of exactly n nodes, from the sequences of values of n - 1 nodes
ValuesFrom(K, S, n, forest) ==
    (IF n = 1 THEN S ELSE {}) \cup UNION {Containers(K, f) : f \in forest}

\* the sequences of values of n nodes in all, from vals[k], the values of k
\* nodes, and forests[m + 1], the sequences of m nodes in all (k, m <= n)
ForestFrom(n, vals, forests) ==
    UNION {{<<v>> \o f : v \in vals[k], f \in forests[n - k + 1]} : k \in 1..n}

\* forests extended up to the sequences of MaxNodes - 1 nodes in all
RECURSIVE ForestsUpTo(_, _, _, _)
ForestsUpTo(K, S, vals, forests) ==
    IF Len(forests) >= MaxNodes THEN forests
    ELSE LET next == Append(vals, ValuesFrom(K, S, Len(vals) + 1, forests[Len(vals) + 1]))
         IN ForestsUpTo(K, S, next, Append(forests, ForestFrom(Len(next), next, forests)))

\* the sequences of values of fewer than MaxNodes nodes in all
Forests(K, S) == UNION Range(ForestsUpTo(K, S, <<>>, <<{<<>>}>>))

\* d is a value of at most MaxNodes nodes with keys of K and scalars of S
IsDocument(K, S, d) ==
    \/ d \in S
    \/ \E f \in Forests(K, S) : d \in Containers(K, f)

x1 == Obj(<< <<<<"x">>, Num(<<"1">>)>> >>)

x2 == Obj(<< <<<<"x">>, Num(<<"2">>)>> >>)

y2 == Obj(<< <<<<"y">>, Num(<<"2">>)>> >>)

\* {"a": {"b": 1, "c": [2, 3]}}
ExampleNested ==
    Obj(<< <<<<"a">>, Obj(<< <<<<"b">>, Num(<<"1">>)>>,
                             <<<<"c">>, Arr(<<Num(<<"2">>), Num(<<"3">>)>>)>> >>)>> >>)

\* {"a_b": 1, "a": {"b": 2}}
ExampleCollision ==
    Obj(<< <<<<"a", "_", "b">>, Num(<<"1">>)>>,
           <<<<"a">>, Obj(<< <<<<"b">>, Num(<<"2">>)>> >>)>> >>)

\* [{"x": 1}, {"y": 2}]
ExampleUnion == Arr(<<x1, y2>>)

\* {"results": [{"x": 1}, {"x": 2}]}
ExampleResults == Obj(<< <<results, Arr(<<x1, x2>>)>> >>)

\* {"results": ""}, {"results": true}, {"x": 1} and {"": {"a": 1}}
ExampleResultsEmptyString == Obj(<< <<results, Str(<<>>)>> >>)

ExampleResultsTrue == Obj(<< <<results, [t |-> "bool", s |-> <<"t", "r", "u", "e">>]>> >>)

ExampleEmptyKey == Obj(<< <<<<>>, Obj(<< <<<<"a">>, Num(<<"1">>)>> >>)>> >>)

Examples ==
    {ExampleNested, ExampleCollision, ExampleUnion, ExampleResults,
     ExampleResultsEmptyString, ExampleResultsTrue, x1, ExampleEmptyKey}

(***************************************************************************)
(* TransformSpec: the flattener and the assembling part of the converter   *)
(* applied to each document.                                               *)
(***************************************************************************)
TransformInit ==
    /\ raw = <<>>
    /\ processed = <<>>
    /\ processed_exists = FALSE
    /\ pc = "done"
    /\ objects_to_be_transformed = <<>>
    /\ idx = 0
    /\ json_str = None
    /\ out = <<>>
    /\ \/ IsDocument(FlattenKeys, FlattenScalars, data)
       \/ IsDocument(AssembleKeys, AssembleScalars, data)
       \/ data \in Examples
    /\ fpc = "input"
    /\ flat = None
    /\ batch = None

\* flatten_json_string on the text of the document
Flatten ==
    /\ fpc = "input"
    /\ flat' = flatten_json_string(dumps(data))
    /\ fpc' = "flattened"
    /\ UNCHANGED <<data, batch>>
    /\ UNCHANGED mvars

\* lines 122-132 of json_string_to_parquet_minio on the text of the document
Assemble ==
    /\ fpc = "input"
    /\ batch' = assemble(dumps(data))
    /\ fpc' = "assembled"
    /\ UNCHANGED <<data, flat>>
    /\ UNCHANGED mvars

TransformNext == Flatten \/ Assemble

TransformSpec == TransformInit /\ [][TransformNext]_vars

(***************************************************************************)
(* main: the partition, the object names and the derived destination name. *)
(***************************************************************************)
year == 2025

month == 12

day == 19

hour == 14

\* f"year={year}/month={month}/day={day}/hour={hour}/"
prefix ==
    <<"y", "e", "a", "r", "=">> \o str(year)
    \o <<"/", "m", "o", "n", "t", "h", "=">> \o str(month)
    \o <<"/", "d", "a", "y", "=">> \o str(day)
    \o <<"/", "h", "o", "u", "r", "=">> \o str(hour) \o <<"/">>

dot_json == <<".", "j", "s", "o", "n">>

dot_parquet == <<".", "p", "a", "r", "q", "u", "e", "t">>

\* s.split("/")[-1]: what follows the last "/"
RECURSIVE last_component(_)
last_component(s) ==
    IF \A n \in DOMAIN s : s[n] # "/" THEN s
    ELSE Only({last_component(rest) : rest \in {Tail(s)}})

\* s.replace(old, new): every non-overlapping occurrence, left to right
RECURSIVE replace(_, _, _)
replace(s, old, new) ==
    IF Len(s) < Len(old) THEN s
    ELSE IF SubSeq(s, 1, Len(old)) = old
         THEN Only({new \o replace(rest, old, new) :
                      rest \in {SubSeq(s, Len(old) + 1, Len(s))}})
         ELSE Only({<<Head(s)>> \o replace(rest, old, new) : rest \in {Tail(s)}})

\* line 189
destination_object_name(source_object_name) ==
    Only({prefix \o replace(filename, dot_json, dot_parquet) :
            filename \in {last_component(source_object_name)}})

(***************************************************************************)
(* The functions main calls.  Each takes what the object store answers     *)
(* (a value, or Error(...) when the call raises) and returns the value the *)
(* function returns, the lines it prints and the exception that leaves it  *)
(* (raised: None when it returns normally).                                *)
(***************************************************************************)
Msg(m, a) == [m |-> m, a |-> a]

\* the listing without its try/except: the exception leaves the function
list_objects_unguarded(response) ==
    IF IsError(response)
    THEN [raised |-> response, value |-> <<>>, printed |-> <<>>]
    ELSE [raised |-> None, value |-> response.l, printed |-> <<>>]

\* lines 28-36: the names listed, or [] when the listing raises
list_objects_in_minio_folder(response) ==
    IF IsError(response)
    THEN [raised |-> None, value |-> <<>>,
          printed |-> <<Msg("Error listing files in MinIO folder", <<response.e>>)>>]
    ELSE [raised |-> None, value |-> response.l, printed |-> <<>>]

\* lines 87-98: the text read, or None when get_object or read raises
read_json_from_minio(response) ==
    IF IsError(response)
    THEN [raised |-> None, value |-> None,
          printed |-> <<Msg("Error reading JSON from MinIO", <<response.e>>)>>]
    ELSE [raised |-> None, value |-> response, printed |-> <<>>]

\* pa.Table.from_pandas and pq.write_table: the buffer of the encoded table
Parquet(df) == [t |-> "parquet", table |-> df]

\* the calls of the object store that may raise inside the converter, and
\* "from_pandas" for the encoder
Faults == {"none", "from_pandas", "bucket_exists", "make_bucket", "put_object"}

\* lines 122-151, the body of the try block: the exception raised, if any,
\* whether make_bucket was done and the buffer put_object stored, if any
encode_and_upload(df, exists, fault) ==
    IF IsError(df) THEN [exc |-> df, made |-> FALSE, put |-> None]
    ELSE IF fault = "from_pandas"
        THEN [exc |-> Error("ArrowInvalid"), made |-> FALSE, put |-> None]
    ELSE IF fault = "bucket_exists"
        THEN [exc |-> Error("S3Error"), made |-> FALSE, put |-> None]
    ELSE IF ~exists /\ fault = "make_bucket"
        THEN [exc |-> Error("S3Error"), made |-> FALSE, put |-> None]
    ELSE IF fault = "put_object"
        THEN [exc |-> Error("S3Error"), made |-> ~exists, put |-> None]
    ELSE [exc |-> None, made |-> ~exists, put |-> Parquet(df)]

convert_body(text, exists, fault) ==
    Only({encode_and_upload(df, exists, fault) : df \in {assemble(text)}})

\* "except ValueError" in place of "except Exception": an error of the
\* object store leaves the function
except_ValueError(body, object_name) ==
    [raised |-> IF body.exc.t = "None" THEN None
                ELSE IF body.exc.e = "S3Error" THEN body.exc ELSE None,
     made |-> body.made,
     put |-> body.put,
     printed |->
        IF body.exc.t = "None"
        THEN <<Msg("Parquet file uploaded to MinIO bucket", object_name)>>
        ELSE IF body.exc.e = "S3Error" THEN <<>>
        ELSE <<Msg("Error converting JSON to Parquet and uploading to MinIO",
                   <<body.exc.e>>)>>]

\* lines 149-153: the line printed after the upload, or every Exception of
\* the body caught and printed
except_Exception(body, object_name) ==
    [raised |-> None,
     made |-> body.made,
     put |-> body.put,
     printed |->
        IF body.exc.t = "None"
        THEN <<Msg("Parquet file uploaded to MinIO bucket", object_name)>>
        ELSE <<Msg("Error converting JSON to Parquet and uploading to MinIO",
                   <<body.exc.e>>)>>]

\* lines 121-153
json_string_to_parquet_minio(text, object_name, exists, fault) ==
    Only({except_Exception(body, object_name) : body \in {convert_body(text, exists, fault)}})

(***************************************************************************)
(* The source objects of a run.                                            *)
(***************************************************************************)
\* object names under the partition prefix (the listing is recursive)
SourceNames ==
    {prefix \o <<"a">> \o dot_json,
     prefix \o <<"s", "/", "a">> \o dot_json,
     prefix \o <<"b">> \o dot_json \o dot_json}

\* [], {"results": []}, {"results": [{"x": 1}, {"x": 2}]} and the text "{"
\* that is not JSON
SourceTexts ==
    {dumps(Arr(<<>>)),
     dumps(Obj(<< <<results, Arr(<<>>)>> >>)),
     dumps(ExampleResults),
     Text(<<Punct("{")>>)}

\* the orders in which a listing can return the names of S
Listings(S) ==
    {q \in [1..Cardinality(S) -> S] : \A i, j \in DOMAIN q : i # j => q[i] # q[j]}

(***************************************************************************)
(* Spec: one run of main.                                                  *)
(***************************************************************************)
Init ==
    /\ raw \in UNION {[S -> SourceTexts] :
                        S \in {T \in SUBSET SourceNames : Cardinality(T) <= MaxObjects}}
    /\ processed = <<>>
    /\ processed_exists \in BOOLEAN
    /\ pc = "list"
    /\ objects_to_be_transformed = <<>>
    /\ idx = 0
    /\ json_str = None
    /\ out = <<>>
    /\ data = None
    /\ fpc = "idle"
    /\ flat = None
    /\ batch = None

\* lines 167-175: the listing and the first evaluation of the loop condition
List ==
    /\ pc = "list"
    /\ \E response \in {Error("S3Error")}
                       \cup {[t |-> "list", l |-> q] : q \in Listings(DOMAIN raw)} :
         LET r == list_objects_in_minio_folder(response) IN
         /\ objects_to_be_transformed' = r.value
         /\ out' = out \o r.printed
                       \o (IF r.raised.t = "None"
                           THEN <<Msg("Files to be transformed", <<>>)>> ELSE <<>>)
         /\ pc' = IF r.raised.t # "None" THEN "raised"
                  ELSE IF r.value = <<>> THEN "done" ELSE "read"
    /\ UNCHANGED <<raw, processed, processed_exists, idx, json_str>>
    /\ UNCHANGED fvars

\* lines 177-187: the read of the current object
Read ==
    /\ pc = "read"
    /\ LET source_object_name == objects_to_be_transformed[idx + 1] IN
       \E response \in {Error("S3Error"), raw[source_object_name]} :
         LET r == read_json_from_minio(response) IN
         /\ json_str' = r.value
         /\ out' = out \o <<Msg("Reading JSON from MinIO", source_object_name)>>
                       \o r.printed
         /\ pc' = IF r.raised.t # "None" THEN "raised" ELSE "convert"
    /\ UNCHANGED <<raw, processed, processed_exists, objects_to_be_transformed, idx>>
    /\ UNCHANGED fvars

\* what main's state becomes once the converter has returned r (or raised)
AfterConvert(r, object_name) ==
    /\ processed_exists' = (processed_exists \/ r.made)
    /\ processed' =
         IF r.put.t = "None" THEN processed
         ELSE [n \in DOMAIN processed \cup {object_name} |->
                 IF n = object_name THEN r.put ELSE processed[n]]
    /\ out' = out
           \o <<Msg("Converting to Parquet and uploading to MinIO as", object_name)>>
           \o r.printed
           \o (IF r.raised.t = "None" THEN <<Msg("Elapsed time", <<>>)>> ELSE <<>>)
    /\ pc' = IF r.raised.t # "None" THEN "raised"
             ELSE IF idx + 1 < Len(objects_to_be_transformed) THEN "read"
             ELSE "done"
    /\ idx' = IF r.raised.t = "None" THEN idx + 1 ELSE idx

\* lines 189-203 and the next evaluation of the loop condition: the
\* destination name, the conversion and upload, the elapsed time
Convert ==
    /\ pc = "convert"
    /\ \E fault \in Faults :
         \E object_name \in {destination_object_name(objects_to_be_transformed[idx + 1])} :
            \E r \in {json_string_to_parquet_minio(json_str, object_name,
                                                   processed_exists, fault)} :
                AfterConvert(r, object_name)
    /\ json_str' = json_str
    /\ UNCHANGED <<raw, objects_to_be_transformed>>
    /\ UNCHANGED fvars

Next == List \/ Read \/ Convert

Spec == Init /\ [][Next]_vars

\* main runs to its end: no step of it waits for anything but the store's answer
FairSpec == Spec /\ WF_vars(Next)

(***************************************************************************)
(* Properties of the flattener and of the assembling (TransformSpec).      *)
(***************************************************************************)
Prepend(c, paths) == [n \in DOMAIN paths |-> <<c>> \o paths[n]]

\* the scalar leaves of a document in traversal order, each as its path:
\* the sequence of object keys and base-10 array indices from the root
RECURSIVE LeafPaths(_)
RECURSIVE LeafPathsOfMembers(_)
RECURSIVE LeafPathsOfItems(_, _)

LeafPathsOfMembers(kv) ==
    IF kv = <<>> THEN <<>>
    ELSE Prepend(Head(kv)[1], LeafPaths(Head(kv)[2])) \o LeafPathsOfMembers(Tail(kv))

LeafPathsOfItems(el, i) ==
    IF i >= Len(el) THEN <<>>
    ELSE Prepend(str(i), LeafPaths(el[i + 1])) \o LeafPathsOfItems(el, i + 1)

LeafPaths(v) ==
    IF v.t = "obj" THEN LeafPathsOfMembers(v.kv)
    ELSE IF v.t = "arr" THEN LeafPathsOfItems(v.el, 0)
    ELSE << <<>> >>

\* the components joined, a separator between every two consecutive ones
RECURSIVE JoinPath(_)
JoinPath(path) ==
    IF path = <<>> THEN <<>>
    ELSE IF Len(path) = 1 THEN path[1]
    ELSE path[1] \o sep \o JoinPath(Tail(path))

\* the path without its leading empty components
RECURSIVE DropLeadingEmpty(_)
DropLeadingEmpty(path) ==
    IF path = <<>> THEN <<>>
    ELSE IF Head(path) = <<>> THEN DropLeadingEmpty(Tail(path))
    ELSE path

\* the key the flattener builds for a leaf
BuiltKey(path) == JoinPath(DropLeadingEmpty(path))

\* no component of a leaf path is the empty string
NoEmptyComponent(v) ==
    \A p \in Range(LeafPaths(v)) : \A n \in DOMAIN p : p[n] # <<>>

\* C6 as claimed: the number of entries of the flattener's output equals the
\* number of scalar leaves of the input, and no entry value is an object or
\* an array.  (Stated for the documents without an empty key, where the keys
\* are the joined paths of C7.)
C6_EntryPerLeaf ==
    (fpc = "flattened" /\ NoEmptyComponent(data)) =>
        /\ Len(flat.d) = Len(LeafPaths(data))
        /\ \A n \in DOMAIN flat.d : IsScalar(flat.d[n][2])

\* C6 as amended: the number of entries equals the number of distinct keys
\* built for the scalar leaves, which never exceeds the number of scalar
\* leaves (two leaves with the same key share one entry), and no entry
\* value is an object or an array.
C6_EntryPerBuiltKey ==
    fpc = "flattened" =>
        /\ \A n \in DOMAIN flat.d : IsScalar(flat.d[n][2])
        /\ Len(flat.d) = Cardinality({BuiltKey(p) : p \in Range(LeafPaths(data))})
        /\ Len(flat.d) <= Len(LeafPaths(data))

\* {"a_b": 1, "a": {"b": 2}} flattened: two leaves, one entry
C6_CollisionFlattened ==
    /\ fpc = "flattened"
    /\ data = ExampleCollision
    /\ Len(LeafPaths(data)) = 2
    /\ Len(flat.d) = 1

\* C7 as claimed: the keys of the flattener's output are the paths of the
\* scalar leaves joined by the separator, a separator between every two
\* consecutive components, also when a component is the empty string; a
\* scalar root has the empty key.
C7_KeyIsJoinedPath ==
    fpc = "flattened" =>
        DictKeys(flat.d) = {JoinPath(p) : p \in Range(LeafPaths(data))}

\* the record the converter selects from an object and the table of that
\* one record
FirstResult(v) == index0(DictGet(v.kv, results))

OneRow(batch_, record) ==
    /\ batch_.t = "DataFrame"
    /\ Len(batch_.rows) = 1
    /\ batch_.columns = [n \in DOMAIN flatten(record, <<>>) |-> flatten(record, <<>>)[n][1]]
    /\ batch_.rows[1] = [n \in DOMAIN flatten(record, <<>>) |-> flatten(record, <<>>)[n][2]]

NonEmptyArray(v) == v.t = "arr" /\ v.el # <<>>

\* C5 as claimed: for an object with a results field holding a non-empty
\* array the single record is the first element of the array; for every
\* other object the whole object is the single record and there is one row.
C5_ResultsOrWholeObject ==
    (fpc = "assembled" /\ data.t = "obj") =>
        IF DictHas(data.kv, results) /\ NonEmptyArray(DictGet(data.kv, results))
        THEN OneRow(batch, DictGet(data.kv, results).el[1])
        ELSE OneRow(batch, data)

\* C5 as amended: for an object with a results field holding a non-empty
\* array the single record is the first element of the array; with results
\* a non-empty string it is the first character of the string; for every
\* other object (no results field, results an empty array or string, an
\* object, a number, a boolean or null) the assembling raises and there is
\* no table.
C5_ResultsOrFailure ==
    (fpc = "assembled" /\ data.t = "obj") =>
        IF ~DictHas(data.kv, results) THEN IsError(batch)
        ELSE IF NonEmptyArray(DictGet(data.kv, results))
            THEN OneRow(batch, DictGet(data.kv, results).el[1])
        ELSE IF DictGet(data.kv, results).t = "str" /\ DictGet(data.kv, results).s # <<>>
            THEN OneRow(batch, Str(<<DictGet(data.kv, results).s[1]>>))
        ELSE IsError(batch)

\* {"x": 1} assembled: a KeyError and no table
C5_ObjectWithoutResultsFails ==
    /\ fpc = "assembled"
    /\ data = x1
    /\ batch = Error("KeyError")

\* a sequence without its repeated elements, first occurrences kept
RECURSIVE FirstOccurrences(_, _)
FirstOccurrences(seq, seen) ==
    IF seq = <<>> THEN seen
    ELSE FirstOccurrences(Tail(seq),
            IF Head(seq) \in Range(seen) THEN seen ELSE Append(seen, Head(seq)))

\* the flattened keys of the records of an array, record after record
RECURSIVE KeysInSequence(_)
KeysInSequence(el) ==
    IF el = <<>> THEN <<>>
    ELSE [n \in DOMAIN flatten(Head(el), <<>>) |-> flatten(Head(el), <<>>)[n][1]]
         \o KeysInSequence(Tail(el))

\* C8: for an array the table has one row per element in input order, its
\* columns are the flattened keys of all records in first-seen order, and
\* each row holds the record's value for every key the record has and the
\* missing value for every other column.
C8_RowsAndColumnUnion ==
    (fpc = "assembled" /\ data.t = "arr") =>
        /\ batch.t = "DataFrame"
        /\ Len(batch.rows) = Len(data.el)
        /\ batch.columns = FirstOccurrences(KeysInSequence(data.el), <<>>)
        /\ \A r \in DOMAIN batch.rows :
             /\ DOMAIN batch.rows[r] = DOMAIN batch.columns
             /\ \A c \in DOMAIN batch.columns :
                  batch.rows[r][c] =
                     IF DictHas(flatten(data.el[r], <<>>), batch.columns[c])
                     THEN DictGet(flatten(data.el[r], <<>>), batch.columns[c])
                     ELSE NaN

\* [{"x": 1}, {"y": 2}] assembled: columns [x, y], rows {x: 1, y: missing}
\* and {x: missing, y: 2}
C8_UnionExampleAssembled ==
    /\ fpc = "assembled"
    /\ data = ExampleUnion
    /\ batch.columns = << <<"x">>, <<"y">> >>
    /\ batch.rows = << <<Num(<<"1">>), NaN>>, <<NaN, Num(<<"2">>)>> >>

(***************************************************************************)
(* Properties of a run of main (Spec, FairSpec), read off what it printed. *)
(***************************************************************************)
Reading == "Reading JSON from MinIO"

ErrorReading == "Error reading JSON from MinIO"

Converting == "Converting to Parquet and uploading to MinIO as"

ErrorConverting == "Error converting JSON to Parquet and uploading to MinIO"

Uploaded == "Parquet file uploaded to MinIO bucket"

ErrorListing == "Error listing files in MinIO folder"

\* the iteration of the loop that printed line n (0 before the loop)
IterationOf(n) == Cardinality({k \in 1..n : out[k].m = Reading})

\* the source object of the iteration that printed line n
SourceOf(n) == objects_to_be_transformed[IterationOf(n)]

\* the lines of iteration k
LinesOf(k) == {n \in DOMAIN out : IterationOf(n) = k}

ReadFailed(k) == \E n \in LinesOf(k) : out[n].m = ErrorReading

\* the objects read so far, in the order of the reads
Visited == [n \in DOMAIN SelectSeq(out, LAMBDA e : e.m = Reading) |->
              SelectSeq(out, LAMBDA e : e.m = Reading)[n].a]

\* C1 as claimed: at the end of a run over N objects there are N outcomes,
\* one per object in loop order, and an object whose read failed has the read
\* error as its single outcome: no conversion is attempted for it, so its
\* iteration prints no line of the converter.
C1_ReadFailureIsSingleOutcome ==
    pc = "done" =>
        /\ Visited = objects_to_be_transformed
        /\ \A k \in DOMAIN objects_to_be_transformed :
             ReadFailed(k) =>
                \A n \in LinesOf(k) : out[n].m \notin {Converting, ErrorConverting, Uploaded}

\* C2: the loop visits the discovered objects one after the other in list
\* order, an object's iteration is complete (its elapsed time printed)
\* before the next read, no failure leaves the loop, and the loop ends having
\* visited every discovered object exactly once.
C2_Sequential ==
    /\ pc # "raised"
    /\ Visited = SubSeq(objects_to_be_transformed, 1, IF pc = "convert" THEN idx + 1 ELSE idx)
    /\ \A n \in DOMAIN out :
         (out[n].m = Reading /\ IterationOf(n) > 1) => out[n - 1].m = "Elapsed time"
    /\ pc = "done" => idx = Len(objects_to_be_transformed)

C2_LoopVisitsAllAndEnds == [](C2_Sequential) /\ <>(pc = "done")

\* a run over MaxObjects objects ended after a failed read, a failure of the
\* store inside the converter and a text that is not JSON
C2_RunWithFailuresEnded ==
    /\ pc = "done"
    /\ Len(objects_to_be_transformed) >= 2
    /\ Visited = objects_to_be_transformed
    /\ \E n \in DOMAIN out : out[n].m = ErrorReading
    /\ \E n \in DOMAIN out : out[n].m = ErrorConverting /\ out[n].a = <<"S3Error">>

ListingFailed == out # <<>> /\ out[1].m = ErrorListing

\* C3 as claimed: when the listing fails the run fails (DiscoveryError).
C3_ListingFailureIsFatal ==
    (pc # "list" /\ ListingFailed) => pc = "raised"

\* C3 as amended: when the listing fails, the error is printed, the list is
\* empty and main ends normally having processed nothing: its state is the
\* one after a listing that found no object, but for the printed error; no
\* failure, the listing's included, ends the run.
C3_ListingFailureIsEmptyListing ==
    /\ pc # "raised"
    /\ (pc # "list" /\ ListingFailed) =>
            /\ pc = "done"
            /\ objects_to_be_transformed = <<>>
            /\ idx = 0
            /\ processed = <<>>
            /\ json_str = None
            /\ Tail(out) = <<Msg("Files to be transformed", <<>>)>>
    /\ (pc # "list" /\ ~ListingFailed /\ DOMAIN raw = {}) =>
            /\ pc = "done"
            /\ objects_to_be_transformed = <<>>
            /\ idx = 0
            /\ processed = <<>>
            /\ json_str = None
            /\ out = <<Msg("Files to be transformed", <<>>)>>

\* the listing failed on a bucket that holds objects: the run has ended
C3_ListingFailedRunEnded ==
    /\ pc = "done"
    /\ ListingFailed
    /\ DOMAIN raw # {}

\* the text is [] or an object whose results is []
ZeroRecords(text) ==
    \/ loads(text) = Arr(<<>>)
    \/ /\ loads(text).t = "obj"
       /\ DictHas(loads(text).kv, results)
       /\ DictGet(loads(text).kv, results) = Arr(<<>>)

\* C4 as claimed: nothing is uploaded for a source object that yields zero
\* records ([] or an empty results array).
C4_NoUploadForEmptyBatch ==
    \A n \in DOMAIN out :
        out[n].m = Uploaded => ~ZeroRecords(raw[SourceOf(n)])

EndsWith(s, suffix) ==
    Len(s) >= Len(suffix) /\ SubSeq(s, Len(s) - Len(suffix) + 1, Len(s)) = suffix

\* the key up to and including its last "/"
DirectoryPart(s) == SubSeq(s, 1, Len(s) - Len(last_component(s)))

\* the filename with a final .json replaced by .parquet
SwapExtension(name) ==
    IF EndsWith(name, dot_json)
    THEN SubSeq(name, 1, Len(name) - Len(dot_json)) \o dot_parquet
    ELSE name

\* C9 as claimed: the destination name is the source name with its directory
\* part unchanged and only the extension of the filename replaced.
C9_SamePathExtensionSwapped ==
    \A n \in DOMAIN out :
        out[n].m = Converting =>
            out[n].a = DirectoryPart(SourceOf(n)) \o SwapExtension(last_component(SourceOf(n)))

\* C10 as claimed: two different source objects of a run are never uploaded
\* to the same destination name.
C10_NoDestinationSharedInRun ==
    \A n, m \in DOMAIN out :
        (out[n].m = Uploaded /\ out[m].m = Uploaded /\ SourceOf(n) # SourceOf(m))
            => out[n].a # out[m].a

====
